---- MODULE Spec2Model ----
(***************************************************************************)
(* Task Tracker: the timer state machine of pages/task-tracker.py, its     *)
(* live-activity store and the parquet writer of utils.py.                 *)
(*                                                                         *)
(* Time is counted in clock ticks, TicksPerSec ticks to the second, so     *)
(* that int(timedelta.total_seconds()) is a real truncation.  An absent    *)
(* value (Python None) is the empty tuple, a present value v is <<v>>.     *)
(* A path is a directory and a file name, each a sequence of symbols: one   *)
(* symbol per character of a user key or number, and one symbol for each   *)
(* literal piece ("user=", "parquet", "tmp").                              *)
(***************************************************************************)
EXTENDS Integers, Sequences, FiniteSets, TLC

VARIABLES
    now,                \* the wall clock, utils.now_utc(), in ticks
    ss,                 \* st.session_state of the user's browser session
    fs,                 \* the shared directory tree: file name -> content
    closed_pause_ticks, \* history: total length of the pause intervals closed so far
    raised,             \* the exception the last call let escape, "" if none
    procs,              \* per user key: the atomic_write_parquet call in progress
    cache,              \* st.cache_data of load_live_activities, per module
    last_load,          \* history: the last load_live_activities call and its result
    recent_cache,       \* st.cache_data of load_recent_tasks, per (user_key, limit)
    last_recent,        \* history: the last load_recent_tasks call and its result
    last_written,       \* history: per user key, the timer snapshot last written
    io                  \* the last call of a text function: its name, argument, result

page_vars == <<ss, closed_pause_ticks, raised>>
history_vars == <<recent_cache, last_recent, last_written, io>>
store_vars == <<procs, cache, last_load, recent_cache, last_recent, last_written, io>>
vars == <<now, ss, fs, closed_pause_ticks, raised, procs, cache, last_load, recent_cache, last_recent, last_written, io>>

\* ------------------------------------------------------------------ bounds

TicksPerSec == 2
MaxTime == 4

\* ----------------------------------------------------------------- helpers

None == << >>
Some(v) == <<v>>
Val(o) == o[1]

Max(a, b) == IF a >= b THEN a ELSE b

\* int((a - b).total_seconds()) for two instants: truncation toward zero.
IntSeconds(d) == IF d >= 0 THEN d \div TicksPerSec ELSE -((-d) \div TicksPerSec)

\* --------------------------------------------------------------- user keys

Whitespace == {" ", "\t"}
KeyChars == {"a", "b", "0", "_", "-", "."}

lower(c) == CASE c = "A" -> "a" [] c = "B" -> "b" [] OTHER -> c

RECURSIVE lstrip(_)
lstrip(s) == IF s # << >> /\ Head(s) \in Whitespace THEN lstrip(Tail(s)) ELSE s

RECURSIVE rstrip(_)
rstrip(s) ==
    IF s # << >> /\ s[Len(s)] \in Whitespace THEN rstrip(SubSeq(s, 1, Len(s) - 1)) ELSE s

\* re.sub(r"\s+", "_", value)
RECURSIVE sub_whitespace(_)
sub_whitespace(s) ==
    IF s = << >> THEN << >>
    ELSE IF Head(s) \in Whitespace
         THEN <<"_">> \o sub_whitespace(lstrip(s))
         ELSE <<Head(s)>> \o sub_whitespace(Tail(s))

sanitize_key(value) ==
    LET stripped == rstrip(lstrip(value))
        lowered  == [i \in 1..Len(stripped) |-> lower(stripped[i])]
        spaced   == sub_whitespace(lowered)
    IN  SelectSeq(spaced, LAMBDA c : c \in KeyChars)

\* utils.get_os_user() of the session under study, and its key.
user_login == <<"A", ".", "b">>
user_key == sanitize_key(user_login)
full_name == "Al B"

\* -------------------------------------------------------------- file names

TmpSuffix == <<".", "parquet", ".", "tmp">>

RECURSIVE rfind_dot(_, _)
rfind_dot(name, i) ==
    IF i = 0 THEN 0 ELSE IF name[i] = "." THEN i ELSE rfind_dot(name, i - 1)

\* pathlib's PurePath.with_suffix: the last ".xyz" of the name is replaced; a
\* name with no suffix (no dot, a leading dot only, or a trailing dot) gets
\* the new suffix appended.
with_suffix(name, suffix) ==
    LET i == rfind_dot(name, Len(name))
    IN  IF 1 < i /\ i < Len(name)
        THEN SubSeq(name, 1, i - 1) \o suffix
        ELSE name \o suffix

Path(dir, name) == [dir |-> dir, name |-> name]

LIVE_ACTIVITY_DIR == <<"LiveActivity">>
COMPLETED_TASKS_DIR == <<"CompletedTasks">>

\* live_activity_dir / f"user={user_key}.parquet"
LivePath(key) == Path(LIVE_ACTIVITY_DIR, <<"user=">> \o key \o <<".", "parquet">>)

\* fnmatch of a file name against "*.parquet"
EndsWithParquet(name) ==
    /\ Len(name) >= 2
    /\ name[Len(name) - 1] = "."
    /\ name[Len(name)] = "parquet"

\* live_activity_dir.glob("user=*.parquet")
GlobLive(path) ==
    /\ path.dir = LIVE_ACTIVITY_DIR
    /\ Len(path.name) >= 3
    /\ path.name[1] = "user="
    /\ EndsWithParquet(path.name)

\* ------------------------------------------------------------- file system

Exists(f, path) == path \in DOMAIN f

Table(rows) == [complete |-> TRUE, rows |-> rows]
PartialFile == [complete |-> FALSE, rows |-> << >>]

PutFile(f, path, content) ==
    [p \in DOMAIN f \cup {path} |-> IF p = path THEN content ELSE f[p]]

Unlink(f, path) == [p \in DOMAIN f \ {path} |-> f[p]]

\* tmp_path.replace(path): one rename.
Replace(f, tmp, path) ==
    [p \in (DOMAIN f \ {tmp}) \cup {path} |-> IF p = path THEN f[tmp] ELSE f[p]]

tmp_path_shared(path) == Path(path.dir, <<"write", ".", "tmp">>)
tmp_path_in_place(path) == path
tmp_path(path) == Path(path.dir, with_suffix(path.name, TmpSuffix))

\* atomic_write_parquet run to completion: the table is written in full to
\* the temporary name, which is then renamed onto the path.
atomic_write_parquet(f, path, rows) ==
    Replace(PutFile(f, tmp_path(path), Table(rows)), tmp_path(path), path)

\* --------------------------------------------------------- live activity store

NoneStr == "<None>"
OrNone(s) == IF s = "" THEN NoneStr ELSE s
OrEmpty(s) == IF s = NoneStr THEN "" ELSE s

\* str.strip() on the note texts the model offers.
strip_text(s) == CASE s = " " -> "" [] s = " fix " -> "fix" [] OTHER -> s

save_live_activity_appending(f, key, login, name, task_name, cadence, account, covering_for, notes, start_utc, state, paused_seconds, pause_start_utc) ==
    LET record == [
            UserKey                |-> key,
            UserLogin              |-> login,
            FullName               |-> OrNone(name),
            TaskName               |-> task_name,
            TaskCadence            |-> cadence,
            CompanyGroup           |-> OrNone(account),
            IsCoveringFor          |-> strip_text(covering_for) # "",
            CoveringFor            |-> OrNone(covering_for),
            Notes                  |-> OrNone(strip_text(notes)),
            StartTimestampUTC      |-> start_utc,
            State                  |-> state,
            PausedSeconds          |-> paused_seconds,
            PauseStartTimestampUTC |-> pause_start_utc ]
    IN  atomic_write_parquet(f, LivePath(key),
            IF LivePath(key) \in DOMAIN f THEN Append(f[LivePath(key)].rows, record)
            ELSE <<record>>)

save_live_activity(f, key, login, name, task_name, cadence, account, covering_for, notes, start_utc, state, paused_seconds, pause_start_utc) ==
    LET record == [
            UserKey                |-> key,
            UserLogin              |-> login,
            FullName               |-> OrNone(name),
            TaskName               |-> task_name,
            TaskCadence            |-> cadence,
            CompanyGroup           |-> OrNone(account),
            IsCoveringFor          |-> strip_text(covering_for) # "",
            CoveringFor            |-> OrNone(covering_for),
            Notes                  |-> OrNone(strip_text(notes)),
            StartTimestampUTC      |-> start_utc,
            State                  |-> state,
            PausedSeconds          |-> paused_seconds,
            PauseStartTimestampUTC |-> pause_start_utc ]
    IN  atomic_write_parquet(f, LivePath(key), <<record>>)

\* pd.read_parquet raises on a file that is not a complete parquet table.
Readable(f, path) == f[path].complete

update_live_activity_state_stale_pause(f, key, state, paused_seconds, pause_start_utc) ==
    LET path == LivePath(key) IN
    IF ~Exists(f, path) THEN f
    ELSE atomic_write_parquet(f, path,
            [i \in 1..Len(f[path].rows) |->
                [f[path].rows[i] EXCEPT !.State = state, !.PausedSeconds = paused_seconds]])

update_live_activity_state_drops_notes(f, key, state, paused_seconds, pause_start_utc) ==
    LET path == LivePath(key) IN
    IF ~Exists(f, path) THEN f
    ELSE atomic_write_parquet(f, path,
            [i \in 1..Len(f[path].rows) |->
                [f[path].rows[i] EXCEPT !.State = state, !.PausedSeconds = paused_seconds,
                                        !.PauseStartTimestampUTC = pause_start_utc,
                                        !.Notes = NoneStr]])

update_live_activity_state(f, key, state, paused_seconds, pause_start_utc) ==
    LET path == LivePath(key) IN
    IF ~Exists(f, path) THEN f
    ELSE IF ~Readable(f, path) THEN f
    ELSE IF f[path].rows = << >> THEN f
    ELSE LET df == [i \in 1..Len(f[path].rows) |->
                      [f[path].rows[i] EXCEPT !.State = state,
                                              !.PausedSeconds = paused_seconds,
                                              !.PauseStartTimestampUTC = pause_start_utc]]
         IN  atomic_write_parquet(f, path, df)

\* The dict load_own_live_activity returns, <<dict>>, or None.
load_own_live_activity(f, key) ==
    LET path == LivePath(key) IN
    IF ~Exists(f, path) THEN None
    ELSE IF ~Readable(f, path) THEN None
    ELSE IF f[path].rows = << >> THEN None
    ELSE LET row == f[path].rows[1] IN
         Some([ full_name       |-> OrEmpty(row.FullName),
                task_name       |-> row.TaskName,
                cadence         |-> row.TaskCadence,
                account         |-> OrEmpty(row.CompanyGroup),
                covering_for    |-> OrEmpty(row.CoveringFor),
                notes           |-> OrEmpty(row.Notes),
                start_utc       |-> row.StartTimestampUTC,
                state           |-> row.State,
                paused_seconds  |-> row.PausedSeconds,
                pause_start_utc |-> row.PauseStartTimestampUTC ])

delete_live_activity(f, key) ==
    IF Exists(f, LivePath(key)) THEN Unlink(f, LivePath(key)) ELSE f

\* ------------------------------------------------------------ task catalog

\* The Tasks sheet: task name -> the cadences it is listed with.
CADENCE_ORDER == <<"Daily", "Weekly", "Periodic">>
task_names == {"Audit", "Billing"}
task_options == {""} \cup task_names
available_cadences(task_name) ==
    CASE task_name = "Audit"   -> {"Daily", "Weekly"}
      [] task_name = "Billing" -> {}
      [] OTHER                 -> {}

\* next((c for c in CADENCE_ORDER if c in available_cadences), None)
first_cadence(avail) ==
    IF \E i \in 1..Len(CADENCE_ORDER) : CADENCE_ORDER[i] \in avail
    THEN CADENCE_ORDER[CHOOSE i \in 1..Len(CADENCE_ORDER) :
            /\ CADENCE_ORDER[i] \in avail
            /\ \A j \in 1..(i - 1) : CADENCE_ORDER[j] \notin avail]
    ELSE NoneStr

\* ------------------------------------------------------------ session state

\* A widget key that is not in st.session_state.
Absent == "<absent>"

DEFAULT_STATE == [
    state               |-> "idle",
    start_utc           |-> None,
    end_utc             |-> None,
    pause_start_utc     |-> None,
    paused_seconds      |-> 0,
    elapsed_seconds     |-> 0,
    notes               |-> "",
    selected_cadence    |-> NoneStr,
    last_task_name      |-> "",
    reset_counter       |-> 0,
    confirm_open        |-> FALSE,
    confirm_rendered    |-> FALSE,
    covering_for        |-> "",
    live_activity_saved |-> FALSE,
    state_restored      |-> FALSE,
    restored_task_name  |-> NoneStr,
    restored_account    |-> NoneStr ]

\* The keys a session holds besides those of DEFAULT_STATE: the task and
\* account select boxes (keys task_<n>, acct_<n>) and the upload flag.
WidgetDefaults == [task |-> Absent, acct |-> Absent, uploaded |-> FALSE]

Merge(r, d) == [k \in DOMAIN r \cup DOMAIN d |-> IF k \in DOMAIN d THEN d[k] ELSE r[k]]

\* A browser session that has not run the page yet.
NewSession == Merge(WidgetDefaults, DEFAULT_STATE)

World(s, f) == [ss |-> s, fs |-> f]

\* The value the select box returns: its default, "", while its key is unset.
widget_value(v) == IF v = Absent THEN "" ELSE v

compute_elapsed_seconds(s, t1, t2) ==
    IF s.start_utc = None THEN 0
    ELSE LET ref    == IF s.state = "ended" THEN Val(s.end_utc) ELSE t1
             base   == IntSeconds(ref - Val(s.start_utc))
             paused == s.paused_seconds +
                       (IF s.state = "paused" /\ s.pause_start_utc # None
                        THEN IntSeconds(t2 - Val(s.pause_start_utc)) ELSE 0)
         IN  Max(0, base - paused)

reset_all_keeps_pause(w) ==
    LET f1 == delete_live_activity(w.fs, user_key)
        s1 == [w.ss EXCEPT !.reset_counter = @ + 1]
        s2 == [s1 EXCEPT !.task = Absent, !.acct = Absent]
        s3 == [k \in DOMAIN s2 |->
                 IF k \in DOMAIN DEFAULT_STATE
                    /\ k \notin {"state_restored", "paused_seconds", "end_utc"}
                 THEN DEFAULT_STATE[k] ELSE s2[k]]
    IN  World(s3, f1)

reset_all_keeps_record(w) ==
    LET s1 == [w.ss EXCEPT !.reset_counter = @ + 1]
        s2 == [s1 EXCEPT !.task = Absent, !.acct = Absent]
        s3 == [k \in DOMAIN s2 |->
                 IF k \in DOMAIN DEFAULT_STATE /\ k # "state_restored"
                 THEN DEFAULT_STATE[k] ELSE s2[k]]
    IN  World(s3, w.fs)

reset_all_keeps_start(w) ==
    LET f1 == delete_live_activity(w.fs, user_key)
        s1 == [w.ss EXCEPT !.reset_counter = @ + 1]
        s2 == [s1 EXCEPT !.task = Absent, !.acct = Absent]
        s3 == [k \in DOMAIN s2 |->
                 IF k \in DOMAIN DEFAULT_STATE /\ k \notin {"state_restored", "start_utc"}
                 THEN DEFAULT_STATE[k] ELSE s2[k]]
    IN  World(s3, f1)

reset_all(w) ==
    LET f1 == delete_live_activity(w.fs, user_key)
        s1 == [w.ss EXCEPT !.reset_counter = @ + 1]
        \* the keys task_<old>, acct_<old> are popped
        s2 == [s1 EXCEPT !.task = Absent, !.acct = Absent]
        s3 == [k \in DOMAIN s2 |->
                 IF k \in DOMAIN DEFAULT_STATE /\ k # "state_restored"
                 THEN DEFAULT_STATE[k] ELSE s2[k]]
    IN  World(s3, f1)

start_task(w, t) ==
    World([w.ss EXCEPT !.state = "running",
                       !.start_utc = Some(t),
                       !.live_activity_saved = FALSE], w.fs)

pause_task_unpublished(w, t) ==
    World([w.ss EXCEPT !.state = "paused", !.pause_start_utc = Some(t)], w.fs)

pause_task(w, t) ==
    LET s1 == [w.ss EXCEPT !.state = "paused", !.pause_start_utc = Some(t)]
    IN  World(s1, update_live_activity_state(w.fs, user_key, "paused",
                                             s1.paused_seconds, s1.pause_start_utc))

resume_task(w, t) ==
    LET s1 == [w.ss EXCEPT !.paused_seconds = @ + IntSeconds(t - Val(w.ss.pause_start_utc)),
                           !.pause_start_utc = None,
                           !.state = "running"]
    IN  World(s1, update_live_activity_state(w.fs, user_key, "running",
                                             s1.paused_seconds, None))

end_task_keeps_record(w, t) ==
    World([w.ss EXCEPT !.state = "ended", !.end_utc = Some(t)], w.fs)

end_task(w, t) ==
    World([w.ss EXCEPT !.state = "ended", !.end_utc = Some(t)],
          delete_live_activity(w.fs, user_key))

select_cadence(w, cadence) == World([w.ss EXCEPT !.selected_cadence = cadence], w.fs)

\* ------------------------------------------------------- duration text format

Digits == <<"0", "1", "2", "3", "4", "5", "6", "7", "8", "9">>
DigitSet == {Digits[i] : i \in 1..10}
digit_value(c) == (CHOOSE i \in 1..10 : Digits[i] = c) - 1

RECURSIVE decimal(_)
decimal(n) == IF n < 10 THEN <<Digits[n + 1]>> ELSE decimal(n \div 10) \o <<Digits[(n % 10) + 1]>>

format_02d_two_digits(n) ==
    IF n % 100 < 10 THEN <<"0">> \o decimal(n % 100) ELSE decimal(n % 100)

\* f"{n:02d}" for n >= 0
format_02d(n) == IF n < 10 THEN <<"0">> \o decimal(n) ELSE decimal(n)

format_hhmmss(seconds) ==
    LET sec == Max(0, seconds) IN
    format_02d(sec \div 3600) \o <<":">> \o format_02d((sec % 3600) \div 60)
        \o <<":">> \o format_02d(sec % 60)

\* str.split(":")
RECURSIVE split_colon(_, _)
split_colon(text, acc) ==
    IF text = << >> THEN <<acc>>
    ELSE IF Head(text) = ":" THEN <<acc>> \o split_colon(Tail(text), << >>)
    ELSE split_colon(Tail(text), Append(acc, Head(text)))

RECURSIVE digits_value(_, _)
digits_value(ds, acc) ==
    IF ds = << >> THEN acc ELSE digits_value(Tail(ds), acc * 10 + digit_value(Head(ds)))

\* The digit groups int() accepts: digits, single underscores between them.
int_body_ok(body) ==
    /\ body # << >>
    /\ \A i \in 1..Len(body) : body[i] \in DigitSet \cup {"_"}
    /\ body[1] # "_" /\ body[Len(body)] # "_"
    /\ \A i \in 1..(Len(body) - 1) : ~(body[i] = "_" /\ body[i + 1] = "_")

\* int(text): <<value>>, or None where Python raises ValueError.
py_int(text) ==
    LET t == rstrip(lstrip(text))
        signed == t # << >> /\ Head(t) \in {"+", "-"}
        body == IF signed THEN Tail(t) ELSE t
    IN  IF ~int_body_ok(body) THEN None
        ELSE LET v == digits_value(SelectSeq(body, LAMBDA c : c # "_"), 0)
             IN  Some(IF signed /\ Head(t) = "-" THEN -v ELSE v)

parse_hhmmss_first_parts(time_str) ==
    LET parts == split_colon(rstrip(lstrip(time_str)), << >>)
        ints == [i \in 1..Len(parts) |-> py_int(parts[i])]
    IN  IF Len(parts) < 2 THEN -1
        ELSE IF ints[1] = None \/ ints[2] = None THEN -1
        ELSE Val(ints[1]) * 3600 + Val(ints[2]) * 60

parse_hhmmss(time_str) ==
    LET parts == split_colon(rstrip(lstrip(time_str)), << >>)
        ints == [i \in 1..Len(parts) |-> py_int(parts[i])]
    IN  IF Len(parts) \notin {2, 3} THEN -1
        ELSE IF \E i \in 1..Len(parts) : ints[i] = None THEN -1
        ELSE IF Len(parts) = 3
             THEN Val(ints[1]) * 3600 + Val(ints[2]) * 60 + Val(ints[3])
             ELSE Val(ints[1]) * 3600 + Val(ints[2]) * 60

\* ------------------------------------------------------ completed task store

\* to_eastern(ts) as whole seconds of Eastern wall time: the clock starts
\* ClockOrigin seconds into Eastern day 0 (no DST change within the horizon).
ClockOrigin == 86398
eastern_second(t) == ClockOrigin + (t \div TicksPerSec)
eastern_day(t) == eastern_second(t) \div (24 * 3600)

\* build_out_dir: user=<key>/year=/month=/day= of the Eastern date of ts.
build_out_dir(key, ts) ==
    COMPLETED_TASKS_DIR \o <<"/", "user=">> \o key \o <<"/", "day=">> \o decimal(eastern_day(ts))

\* f"task_{eastern_start:%Y%m%d_%H%M%S}_{record['TaskID'][:8]}.parquet"
task_file_name(start_utc, task_id) ==
    <<"task_">> \o decimal(eastern_second(start_utc)) \o <<"_", task_id[1], ".", "parquet">>

\* uuid.uuid4() as <<first 8 characters, the rest>>.
TaskIDs == {<<"1f0c9a3e", "x">>, <<"1f0c9a3e", "y">>, <<"77b2d4c0", "x">>}

APP_VERSION == "v"

build_task_record(s, login, name, task_name, cadence, account, covering_for, notes, duration_seconds, partially_complete, task_id, t) == [
    TaskID             |-> task_id,
    UserLogin          |-> login,
    FullName           |-> OrNone(name),
    TaskName           |-> task_name,
    TaskCadence        |-> cadence,
    CompanyGroup       |-> OrNone(account),
    IsCoveringFor      |-> strip_text(covering_for) # "",
    CoveringFor        |-> OrNone(covering_for),
    Notes              |-> OrNone(strip_text(notes)),
    PartiallyComplete  |-> partially_complete,
    StartTimestampUTC  |-> s.start_utc,
    EndTimestampUTC    |-> s.end_utc,
    DurationSeconds    |-> duration_seconds,
    UploadTimestampUTC |-> Some(t),
    AppVersion         |-> APP_VERSION ]

\* The files of the completed-task tree: *.parquet under a day= directory.
GlobCompleted(path) ==
    /\ Len(path.dir) >= 1
    /\ path.dir[1] = COMPLETED_TASKS_DIR[1]
    /\ EndsWithParquet(path.name)

completed_files(f) == {p \in DOMAIN f : GlobCompleted(p)}

\* ------------------------------------------------------------- the page script

\* Lines 117-134: the restore block, run while state_restored is unset.
restore_block_every_turn(w) ==
    LET s1 == [w.ss EXCEPT !.state_restored = TRUE]
             restored == load_own_live_activity(w.fs, user_key)
         IN  IF restored = None THEN World(s1, w.fs)
             ELSE LET r == Val(restored) IN
                  World([s1 EXCEPT !.state = r.state,
                                   !.start_utc = r.start_utc,
                                   !.paused_seconds = r.paused_seconds,
                                   !.pause_start_utc = r.pause_start_utc,
                                   !.selected_cadence = r.cadence,
                                   !.notes = r.notes,
                                   !.covering_for = r.covering_for,
                                   !.live_activity_saved = TRUE,
                                   !.last_task_name = r.task_name,
                                   !.restored_task_name = r.task_name,
                                   !.restored_account = r.account], w.fs)

restore_block(w) ==
    IF w.ss.state_restored THEN w
    ELSE LET s1 == [w.ss EXCEPT !.state_restored = TRUE]
             restored == load_own_live_activity(w.fs, user_key)
         IN  IF restored = None THEN World(s1, w.fs)
             ELSE LET r == Val(restored) IN
                  World([s1 EXCEPT !.state = r.state,
                                   !.start_utc = r.start_utc,
                                   !.paused_seconds = r.paused_seconds,
                                   !.pause_start_utc = r.pause_start_utc,
                                   !.selected_cadence = r.cadence,
                                   !.notes = r.notes,
                                   !.covering_for = r.covering_for,
                                   !.live_activity_saved = TRUE,
                                   !.last_task_name = r.task_name,
                                   !.restored_task_name = r.task_name,
                                   !.restored_account = r.account], w.fs)

\* Lines 327-329: the upload toast.
toast_block(w) == World([w.ss EXCEPT !.uploaded = FALSE], w.fs)

\* Lines 343-359: the account select box and the covering-for toggle.
account_block(w) ==
    LET s0 == w.ss
        s1 == IF s0.restored_account \notin {NoneStr, ""} /\ s0.acct = Absent
              THEN [s0 EXCEPT !.acct = s0.restored_account] ELSE s0
    \* line 359: the covering toggle is off, so covering_for is ""
    IN  World([s1 EXCEPT !.acct = widget_value(s1.acct), !.covering_for = ""], w.fs)

\* Lines 362-379: the task select box and the cadence auto-selection.
task_block(w) ==
    LET s0 == w.ss
        s1 == IF /\ s0.restored_task_name \notin {NoneStr, ""}
                 /\ s0.task = Absent
                 /\ s0.restored_task_name \in task_options
              THEN [s0 EXCEPT !.task = s0.restored_task_name] ELSE s0
        s2 == [s1 EXCEPT !.task = widget_value(s1.task)]
        task_name == s2.task
        s3 == IF task_name # "" /\ s2.state = "idle" /\ task_name # s2.last_task_name
              THEN [s2 EXCEPT !.selected_cadence = NoneStr, !.last_task_name = task_name]
              ELSE s2
        s4 == IF /\ task_name # "" /\ s3.state = "idle"
                 /\ s3.selected_cadence \notin available_cadences(task_name)
              THEN [s3 EXCEPT !.selected_cadence = first_cadence(available_cadences(task_name))]
              ELSE s3
    IN  World(s4, w.fs)

\* Line 391.  The two clock reads of compute_elapsed_seconds are t and t + skew.
elapsed_block(w, t, skew) ==
    World([w.ss EXCEPT !.elapsed_seconds = compute_elapsed_seconds(w.ss, t, t + skew)], w.fs)

\* Lines 443-457: the live record is published once per task.
save_block_every_turn(w) ==
    LET s == w.ss IN
    IF /\ s.state \in {"running", "paused"}
       /\ s.task # ""
       /\ s.selected_cadence # NoneStr
    THEN World([s EXCEPT !.live_activity_saved = TRUE],
               save_live_activity(w.fs, user_key, user_login, full_name, s.task,
                                  s.selected_cadence, s.acct, s.covering_for, s.notes,
                                  s.start_utc, s.state, s.paused_seconds,
                                  s.pause_start_utc))
    ELSE w

save_block(w) ==
    LET s == w.ss IN
    IF /\ s.state \in {"running", "paused"}
       /\ ~s.live_activity_saved
       /\ s.task # ""
       /\ s.selected_cadence # NoneStr
    THEN World([s EXCEPT !.live_activity_saved = TRUE],
               save_live_activity(w.fs, user_key, user_login, full_name, s.task,
                                  s.selected_cadence, s.acct, s.covering_for, s.notes,
                                  s.start_utc, s.state, s.paused_seconds,
                                  s.pause_start_utc))
    ELSE w

\* Lines 459-462: the confirmation dialog is opened.
confirm_block(w) ==
    IF w.ss.confirm_open /\ ~w.ss.confirm_rendered
    THEN World([w.ss EXCEPT !.confirm_rendered = TRUE], w.fs)
    ELSE w

\* One run of the script, top to bottom.
page(w, t, skew) ==
    confirm_block(save_block(elapsed_block(
        task_block(account_block(toast_block(restore_block(w)))), t, skew)))

\* ---------------------------------------------------------------- page turns

\* The skew between the two clock reads of one compute_elapsed_seconds call.
ClockReadSkew == {0, 1}

\* The state after a callback has run and the script has rerun after it.
Turn(w) ==
    \E skew \in ClockReadSkew :
        LET w2 == page(w, now, skew) IN
        /\ ss' = w2.ss
        /\ fs' = w2.fs
        /\ raised' = ""
        /\ now' = now
        /\ UNCHANGED store_vars

Here == World(ss, fs)

\* A rerun with no callback: the 10 s auto-refresh, or a widget without one.
Rerun ==
    /\ Turn(Here)
    /\ UNCHANGED closed_pause_ticks

\* The task select box, enabled while the inputs are not locked.
SelectTask(task_name) ==
    /\ ss.state = "idle"
    /\ task_name # ss.task
    /\ Turn(World([ss EXCEPT !.task = task_name], fs))
    /\ UNCHANGED closed_pause_ticks

\* A cadence button (lines 382-387).
SelectCadence(cadence) ==
    /\ ss.task # ""
    /\ cadence \in available_cadences(ss.task)
    /\ ss.state = "idle" \/ ss.selected_cadence = cadence
    /\ Turn(select_cadence(Here, cadence))
    /\ UNCHANGED closed_pause_ticks

Start_without_cadence ==
    /\ ss.state = "idle"
    /\ Turn(start_task(Here, now))
    /\ closed_pause_ticks' = 0

\* Start, offered in phase idle once can_start holds (lines 405-411).
Start ==
    /\ ss.state = "idle"
    /\ ss.task # "" /\ ss.selected_cadence # NoneStr
    /\ Turn(start_task(Here, now))
    /\ closed_pause_ticks' = 0

Pause ==
    /\ ss.state = "running"
    /\ Turn(pause_task(Here, now))
    /\ UNCHANGED closed_pause_ticks

Resume ==
    /\ ss.state = "paused"
    /\ Turn(resume_task(Here, now))
    /\ closed_pause_ticks' = closed_pause_ticks + (now - Val(ss.pause_start_utc))

End ==
    /\ ss.state \in {"running", "paused"}
    /\ Turn(end_task(Here, now))
    /\ closed_pause_ticks' =
          IF ss.state = "paused"
          THEN closed_pause_ticks + (now - Val(ss.pause_start_utc))
          ELSE closed_pause_ticks

\* Reset, offered in phase ended (line 435).
Reset ==
    /\ ss.state = "ended"
    /\ Turn(reset_all(Here))
    /\ closed_pause_ticks' = 0

\* The browser reloads the page: a new session runs the script for the first time.
Reload ==
    /\ Turn(World(NewSession, fs))
    /\ closed_pause_ticks' = IF ss.state \in {"running", "paused"} THEN closed_pause_ticks ELSE 0

Tick ==
    /\ now < MaxTime
    /\ now' = now + 1
    /\ UNCHANGED <<fs, page_vars, store_vars>>

\* ------------------------------------------------------------------ submit

\* The texts typed into the Duration field of the dialog (at most 8 characters).
DurationEdits == {
    <<"0", "0", ":", "0", "0", ":", "0", "1">>,
    <<"0", "0", ":", "0", "1">>,
    <<"a", "b", "c">>,
    << >>,
    <<"1", ":", "2", ":", "3", ":", "4">>,
    <<"-", "1", ":", "0", "0">>,
    <<"0", "2", ":", "0", "0", ":", "0", "0">> }

MaxCompleted == 1

\* Upload, offered in phase ended (lines 429-433): the dialog is opened by the rerun.
Upload ==
    /\ ss.state = "ended"
    /\ Turn(World([ss EXCEPT !.confirm_open = TRUE, !.confirm_rendered = FALSE], fs))
    /\ UNCHANGED closed_pause_ticks

DialogShown == ss.confirm_open /\ ss.confirm_rendered /\ ss.state = "ended"

\* Lines 244-246: the duration stored, the computed one when the text does not parse.
parsed_duration_unchecked(s, edited) == parse_hhmmss(edited)
parsed_duration(s, edited) ==
    IF parse_hhmmss(edited) < 0 THEN s.elapsed_seconds ELSE parse_hhmmss(edited)

\* Lines 252-262: the record of the dialog's Submit.
submit_record(s, edited, task_id, t) ==
    build_task_record(s, user_login, full_name, s.task, s.selected_cadence, s.acct,
                      s.covering_for, s.notes, parsed_duration(s, edited), FALSE, task_id, t)

\* Lines 264-266: out_dir / fname.
submit_path(s, task_id) ==
    Path(build_out_dir(user_key, Val(s.start_utc)), task_file_name(Val(s.start_utc), task_id))

\* Lines 263-271 of confirm_submit, up to its st.rerun().
confirm_submit(w, edited, task_id, t) ==
    LET f1 == atomic_write_parquet(w.fs, submit_path(w.ss, task_id),
                                   <<submit_record(w.ss, edited, task_id, t)>>)
        s1 == [w.ss EXCEPT !.confirm_open = FALSE, !.confirm_rendered = FALSE]
        w2 == reset_all(World(s1, f1))
    IN  World([w2.ss EXCEPT !.uploaded = TRUE], w2.fs)

\* Submit in the dialog (lines 242-272); edited is the text of the Duration field.
Submit(edited, task_id) ==
    /\ DialogShown
    /\ Cardinality(completed_files(fs)) < MaxCompleted
    /\ Turn(confirm_submit(Here, edited, task_id, now))
    /\ closed_pause_ticks' = 0

\* Cancel in the dialog (lines 274-277).
Cancel ==
    /\ DialogShown
    /\ Turn(World([ss EXCEPT !.confirm_open = FALSE, !.confirm_rendered = FALSE], fs))
    /\ UNCHANGED closed_pause_ticks

\* ------------------------------------------------ submits, one after another

MaxSubmits == 2

\* The instants the clock of the submits steps through, in ticks: two
\* instants of one second, then 7215 s later.
SubmitInstants == <<0, 1, 7215 * TicksPerSec>>

\* uuid.uuid4() returns an id no stored record carries.
FreshTaskID(task_id) == \A p \in completed_files(fs) : fs[p].rows[1].TaskID # task_id

\* Submit with the Duration field left as offered, task after task.
SubmitAgain(task_id) ==
    /\ DialogShown
    /\ Cardinality(completed_files(fs)) < MaxSubmits
    /\ FreshTaskID(task_id)
    /\ Turn(confirm_submit(Here, format_hhmmss(ss.elapsed_seconds), task_id, now))
    /\ closed_pause_ticks' = 0

\* The steps of atomic_write_parquet that can raise.
WriteFailures == {"mkdir", "write_table", "replace"}

\* The files atomic_write_parquet leaves behind when the named step raises.
atomic_write_parquet_fails_in_place(f, path, rows, step) == PutFile(f, path, PartialFile)
atomic_write_parquet_fails(f, path, rows, step) ==
    CASE step = "mkdir"       -> f
      [] step = "write_table" -> PutFile(f, tmp_path(path), PartialFile)
      [] step = "replace"     -> PutFile(f, tmp_path(path), Table(rows))

\* Submit in the dialog while atomic_write_parquet raises: the exception leaves
\* confirm_submit at line 267, lines 268-272 do not run.
SubmitFails(edited, task_id, step) ==
    /\ DialogShown
    /\ FreshTaskID(task_id)
    /\ fs' = atomic_write_parquet_fails(fs, submit_path(ss, task_id),
                                        <<submit_record(ss, edited, task_id, now)>>, step)
    /\ raised' = "OSError"
    /\ UNCHANGED <<now, ss, closed_pause_ticks, store_vars>>

TickSubmit ==
    /\ \E i \in 1..(Len(SubmitInstants) - 1) :
          /\ now = SubmitInstants[i]
          /\ now' = SubmitInstants[i + 1]
    /\ UNCHANGED <<fs, page_vars, store_vars>>

NextSubmit ==
    \/ \E task_name \in task_options : SelectTask(task_name)
    \/ Start
    \/ End
    \/ Upload
    \/ \E edited \in DurationEdits, task_id \in TaskIDs : Submit(edited, task_id)
    \/ \E step \in WriteFailures :
          SubmitFails(format_hhmmss(ss.elapsed_seconds), <<"77b2d4c0", "x">>, step)
    \/ Cancel
    \/ TickSubmit

NextResubmit ==
    \/ \E task_name \in task_options : SelectTask(task_name)
    \/ Start
    \/ End
    \/ Upload
    \/ \E task_id \in TaskIDs : SubmitAgain(task_id)
    \/ Cancel
    \/ Reset
    \/ TickSubmit

\* ------------------------------------------- the transition functions, called
\* ------------------------------------------- directly in whatever phase

Call(w) ==
    /\ ss' = w.ss
    /\ fs' = w.fs
    /\ raised' = ""
    /\ UNCHANGED <<now, closed_pause_ticks, store_vars>>

CallStart == Call(start_task(Here, now))

CallPause == Call(pause_task(Here, now))

\* now_utc() - None raises TypeError before anything is assigned.
CallResume ==
    IF ss.pause_start_utc = None
    THEN raised' = "TypeError" /\ UNCHANGED <<now, ss, fs, closed_pause_ticks, store_vars>>
    ELSE Call(resume_task(Here, now))

CallEnd == Call(end_task(Here, now))

CallReset == Call(reset_all(Here))

NextDirect ==
    \/ CallStart
    \/ CallPause
    \/ CallResume
    \/ CallEnd
    \/ CallReset
    \/ Tick

\* ------------------------------------------------ the stores, call by call

\* The logins of the users sharing the stores, and their keys.
StoreLogins == {<<"A", ".", "b">>, <<"b", " ", "a">>}
StoreKeys == {sanitize_key(login) : login \in StoreLogins}

\* The snapshots the users publish: state, paused_seconds, pause_start_utc.
Snapshots == {<<"running", 0, None>>, <<"paused", 0, Some(1)>>}

IdleProc == [stage |-> "idle"]
WriteProc(stage, path, rows) == [stage |-> stage, path |-> path, rows |-> rows]

StoreStep ==
    UNCHANGED <<now, page_vars, cache, last_load, history_vars>>

\* A call of atomic_write_parquet(df, path) begins: the parent directory is
\* made and pq.write_table opens the temporary file.
BeginWrite(key, path, rows) ==
    /\ procs' = [procs EXCEPT ![key] = WriteProc("writing", path, rows)]
    /\ fs' = PutFile(fs, tmp_path(path), PartialFile)

\* save_live_activity up to its call of atomic_write_parquet.
SaveLive(login, snap) ==
    LET key == sanitize_key(login) IN
    /\ procs[key] = IdleProc
    /\ BeginWrite(key, LivePath(key),
          <<[ UserKey |-> key, UserLogin |-> login, FullName |-> NoneStr,
              TaskName |-> "Audit", TaskCadence |-> "Daily", CompanyGroup |-> NoneStr,
              IsCoveringFor |-> FALSE, CoveringFor |-> NoneStr, Notes |-> NoneStr,
              StartTimestampUTC |-> Some(0), State |-> snap[1],
              PausedSeconds |-> snap[2], PauseStartTimestampUTC |-> snap[3] ]>>)
    /\ StoreStep

\* update_live_activity_state up to its call of atomic_write_parquet.
UpdateLive(key, snap) ==
    LET path == LivePath(key) IN
    /\ procs[key] = IdleProc
    /\ IF Exists(fs, path) /\ Readable(fs, path) /\ fs[path].rows # << >>
       THEN BeginWrite(key, path,
                [i \in 1..Len(fs[path].rows) |->
                    [fs[path].rows[i] EXCEPT !.State = snap[1],
                                             !.PausedSeconds = snap[2],
                                             !.PauseStartTimestampUTC = snap[3]]])
       ELSE UNCHANGED <<fs, procs>>
    /\ StoreStep

DeleteLive(key) ==
    /\ procs[key] = IdleProc
    /\ fs' = delete_live_activity(fs, key)
    /\ UNCHANGED procs
    /\ StoreStep

\* The write of a completed record (confirm_submit, lines 263-267).
AppendCompleted(login, start_utc, task_id) ==
    LET key == sanitize_key(login)
        record == [ TaskID |-> task_id, UserLogin |-> login, FullName |-> NoneStr,
                    TaskName |-> "Audit", TaskCadence |-> "Daily",
                    CompanyGroup |-> NoneStr, IsCoveringFor |-> FALSE,
                    CoveringFor |-> NoneStr, Notes |-> NoneStr,
                    PartiallyComplete |-> FALSE, StartTimestampUTC |-> Some(start_utc),
                    EndTimestampUTC |-> Some(start_utc), DurationSeconds |-> 0,
                    UploadTimestampUTC |-> Some(start_utc), AppVersion |-> APP_VERSION ]
    IN
    /\ procs[key] = IdleProc
    /\ BeginWrite(key, Path(build_out_dir(key, start_utc), task_file_name(start_utc, task_id)),
                  <<record>>)
    /\ StoreStep

\* The next step of a call of atomic_write_parquet: pq.write_table completes
\* the temporary file, then tmp_path.replace(path).
WriteStep(key) ==
    LET proc == procs[key] IN
    /\ proc.stage # "idle"
    /\ \/ /\ proc.stage = "writing"
          /\ fs' = PutFile(fs, tmp_path(proc.path), Table(proc.rows))
          /\ procs' = [procs EXCEPT ![key] = WriteProc("written", proc.path, proc.rows)]
       \/ /\ proc.stage = "written"
          /\ fs' = Replace(fs, tmp_path(proc.path), proc.path)
          /\ procs' = [procs EXCEPT ![key] = IdleProc]
    /\ StoreStep

\* The process dies inside atomic_write_parquet; the files stay as they are.
Crash(key) ==
    /\ procs[key].stage # "idle"
    /\ procs' = [procs EXCEPT ![key] = IdleProc]
    /\ fs' = fs
    /\ StoreStep

NextStore ==
    \/ \E login \in StoreLogins, snap \in Snapshots : SaveLive(login, snap)
    \/ \E key \in StoreKeys, snap \in Snapshots : UpdateLive(key, snap)
    \/ \E key \in StoreKeys : DeleteLive(key)
    \/ \E login \in StoreLogins : AppendCompleted(login, 0, <<"1f0c9a3e", "x">>)
    \/ \E key \in StoreKeys : WriteStep(key)
    \/ \E key \in StoreKeys : Crash(key)

\* ------------------------------------------- the live activity listing

\* The columns load_live_activities reads, per module.
LiveColumns(row) ==
    [ UserKey |-> row.UserKey, FullName |-> row.FullName, UserLogin |-> row.UserLogin,
      TaskName |-> row.TaskName, StartTimestampUTC |-> row.StartTimestampUTC,
      Notes |-> row.Notes ]

LiveColumnsLegacy(row) ==
    [ FullName |-> row.FullName, UserLogin |-> row.UserLogin, TaskName |-> row.TaskName,
      StartTimestampUTC |-> row.StartTimestampUTC, Notes |-> row.Notes ]

live_files(f) == {p \in DOMAIN f : GlobLive(p)}

\* The body of utils.load_live_activities; a falsy exclude key ("" or None,
\* here the empty sequence) filters nothing.
load_live_activities(f, exclude_user_key) ==
    LET files == live_files(f) IN
    IF files = {} THEN {}
    ELSE IF \E p \in files : ~Readable(f, p) THEN {}
    ELSE LET df == {LiveColumns(row) :
                      row \in UNION {{f[p].rows[i] : i \in 1..Len(f[p].rows)} : p \in files}}
         IN  IF exclude_user_key # << >>
             THEN {row \in df : row.UserKey # exclude_user_key}
             ELSE df

\* The body of task_tracker_utils.load_live_activities.
load_live_activities_legacy(f, exclude_user_key) ==
    LET files == live_files(f) IN
    IF files = {} THEN {}
    ELSE IF \E p \in files : ~Readable(f, p) THEN {}
    ELSE LET df == {LiveColumnsLegacy(row) :
                      row \in UNION {{f[p].rows[i] : i \in 1..Len(f[p].rows)} : p \in files}}
         IN  IF exclude_user_key # << >>
             THEN {row \in df : row.UserLogin # exclude_user_key}
             ELSE df

\* st.cache_data(ttl=15): the lifetime of an entry, in seconds.
CACHE_TTL == 15

\* The clock of the listing moves in steps of CacheTickSeconds up to CacheHorizon.
CacheTickSeconds == 5
CacheHorizon == 20

\* An entry is served while it is younger than the lifetime.
CacheHit(entry) == entry # None /\ now - Val(entry).at < CACHE_TTL * TicksPerSec

\* A call through st.cache_data: the key is made of live_activity_dir alone,
\* because a parameter whose name starts with an underscore is not hashed.
CachedCall(module, exclude_user_key, computed) ==
    LET hit    == CacheHit(cache[module])
        result == IF hit THEN Val(cache[module]).value ELSE computed
    IN  /\ cache' = [cache EXCEPT ![module] =
                        IF hit THEN @ ELSE Some([at |-> now, value |-> result])]
        /\ last_load' = Some([ module  |-> module,
                               exclude |-> exclude_user_key,
                               hit     |-> hit,
                               present |-> {k \in StoreKeys : Exists(fs, LivePath(k))},
                               result  |-> result ])
        /\ UNCHANGED <<now, fs, page_vars, procs, history_vars>>

LoadLive(exclude_user_key) ==
    CachedCall("utils", exclude_user_key, load_live_activities(fs, exclude_user_key))

LoadLiveLegacy(exclude_user_key) ==
    CachedCall("task_tracker_utils", exclude_user_key,
               load_live_activities_legacy(fs, exclude_user_key))

\* A user's page publishes its record, or withdraws it.
Publish(login) ==
    /\ fs' = save_live_activity(fs, sanitize_key(login), login, "", "Audit", "Daily",
                                "", "", "", Some(0), "running", 0, None)
    /\ UNCHANGED <<now, page_vars, store_vars>>

Withdraw(key) ==
    /\ Exists(fs, LivePath(key))
    /\ fs' = delete_live_activity(fs, key)
    /\ UNCHANGED <<now, page_vars, store_vars>>

TickCache ==
    /\ now + CacheTickSeconds * TicksPerSec <= CacheHorizon * TicksPerSec
    /\ now' = now + CacheTickSeconds * TicksPerSec
    /\ UNCHANGED <<fs, page_vars, store_vars>>

NextCache ==
    \/ \E login \in StoreLogins : Publish(login)
    \/ \E key \in StoreKeys : Withdraw(key)
    \/ \E key \in StoreKeys : LoadLive(key)
    \/ \E key \in StoreKeys : LoadLiveLegacy(key)
    \/ TickCache

\* ------------------------------------------- the listing of today's tasks

\* st.cache_data(ttl=30): the lifetime of an entry, in seconds.
RECENT_TTL == 30

ListingTickSeconds == 15
ListingHorizon == 45
MaxRecords == 2
\* The calls made: every user's tasks with limit 2, one user's with limit 1.
RecentCalls == {<< << >>, 2 >>, <<user_key, 1>>}

today_files_any_day(f, key, t) ==
    {p \in completed_files(f) : key # << >> => SubSeq(p.dir, 4, 3 + Len(key)) = key}

\* The files load_recent_tasks globs at instant t: *.parquet in today's
\* (Eastern) day directory of the user, or of every user without a user key.
today_files(f, key, t) ==
    LET day_part == <<"/", "day=">> \o decimal(eastern_day(t)) IN
    IF key # << >>
    THEN {p \in DOMAIN f : p.dir = build_out_dir(key, t) /\ EndsWithParquet(p.name)}
    ELSE {p \in DOMAIN f :
            /\ GlobCompleted(p)
            /\ Len(p.dir) > Len(day_part) + 3
            /\ SubSeq(p.dir, 1, 3) = COMPLETED_TASKS_DIR \o <<"/", "user=">>
            /\ SubSeq(p.dir, Len(p.dir) - Len(day_part) + 1, Len(p.dir)) = day_part}

RecentColumns(row) ==
    [ StartTimestampUTC |-> row.StartTimestampUTC, EndTimestampUTC |-> row.EndTimestampUTC,
      DurationSeconds |-> row.DurationSeconds, PartiallyComplete |-> row.PartiallyComplete,
      Notes |-> row.Notes, FullName |-> row.FullName, UserLogin |-> row.UserLogin,
      TaskName |-> row.TaskName ]

\* The frames df.sort_values("StartTimestampUTC", ascending=False) can give
\* for the rows of the files: rows with equal keys come in either order.
sorted_frames(f, files) ==
    LET n == Cardinality(files) IN
    { [i \in 1..n |-> RecentColumns(f[order[i]].rows[1])] :
        order \in { o \in [1..n -> files] :
                      /\ \A i, j \in 1..n : i # j => o[i] # o[j]
                      /\ \A i \in 1..n, j \in 1..n :
                            i < j => Val(f[o[i]].rows[1].StartTimestampUTC) >=
                                     Val(f[o[j]].rows[1].StartTimestampUTC) } }

\* The body of load_recent_tasks: the frames it can return at instant t.
load_recent_tasks(f, key, limit, t) ==
    LET files == today_files(f, key, t) IN
    IF files = {} THEN {<< >>}
    ELSE IF \E p \in files : ~Readable(f, p) THEN {<< >>}
    ELSE {SubSeq(df, 1, IF limit < Len(df) THEN limit ELSE Len(df)) :
            df \in sorted_frames(f, files)}

\* A call through st.cache_data: user_key and limit are part of the key.
LoadRecent(key, limit) ==
    LET entry == IF <<key, limit>> \in DOMAIN recent_cache
                 THEN Some(recent_cache[<<key, limit>>]) ELSE None
        hit   == entry # None /\ now - Val(entry).at < RECENT_TTL * TicksPerSec
    IN  /\ \E computed \in load_recent_tasks(fs, key, limit, now) :
            LET result == IF hit THEN Val(entry).value ELSE computed IN
            /\ recent_cache' =
                  IF hit THEN recent_cache
                  ELSE PutFile(recent_cache, <<key, limit>>, [at |-> now, value |-> result])
            /\ last_recent' = Some([ key |-> key, limit |-> limit, hit |-> hit,
                                     at |-> now, result |-> result ])
        /\ UNCHANGED <<now, fs, page_vars, procs, cache, last_load, last_written, io>>

\* A user's submit adds the record of a task started now.
AppendRecord(login, task_id) ==
    LET key  == sanitize_key(login)
        path == Path(build_out_dir(key, now), task_file_name(now, task_id))
        record == [ TaskID |-> task_id, UserLogin |-> login, FullName |-> NoneStr,
                    TaskName |-> "Audit", TaskCadence |-> "Daily",
                    CompanyGroup |-> NoneStr, IsCoveringFor |-> FALSE,
                    CoveringFor |-> NoneStr, Notes |-> NoneStr,
                    PartiallyComplete |-> FALSE, StartTimestampUTC |-> Some(now),
                    EndTimestampUTC |-> Some(now), DurationSeconds |-> 0,
                    UploadTimestampUTC |-> Some(now), AppVersion |-> APP_VERSION ]
    IN  /\ Cardinality(completed_files(fs)) < MaxRecords
        /\ ~Exists(fs, path)
        /\ fs' = atomic_write_parquet(fs, path, <<record>>)
        /\ UNCHANGED <<now, page_vars, store_vars>>

\* A file the readers look for becomes unreadable (a damaged or half-synced copy).
Corrupt(path) ==
    /\ Exists(fs, path)
    /\ GlobLive(path) \/ GlobCompleted(path)
    /\ Readable(fs, path)
    /\ fs' = PutFile(fs, path, PartialFile)
    /\ UNCHANGED <<now, page_vars, store_vars>>

TickListing ==
    /\ now + ListingTickSeconds * TicksPerSec <= ListingHorizon * TicksPerSec
    /\ now' = now + ListingTickSeconds * TicksPerSec
    /\ UNCHANGED <<fs, page_vars, store_vars>>

NextListing ==
    \/ \E login \in StoreLogins : AppendRecord(login, <<"1f0c9a3e", "x">>)
    \/ \E call \in RecentCalls : LoadRecent(call[1], call[2])
    \/ TickListing

NextUnreadable ==
    \/ \E login \in StoreLogins : Publish(login)
    \/ \E login \in StoreLogins : AppendRecord(login, <<"1f0c9a3e", "x">>)
    \/ \E path \in DOMAIN fs : Corrupt(path)
    \/ \E key \in StoreKeys : LoadLive(key)
    \/ \E call \in RecentCalls : LoadRecent(call[1], call[2])

\* ------------------------------------------- the live store, call after call

\* The timer snapshots an update writes: state, paused_seconds,
\* pause_start_utc.  A save writes one of Snapshots, no pause closed yet.
LiveSnapshots == Snapshots \cup {<<"running", 1, None>>, <<"paused", 1, Some(2)>>}

SaveSnap(login, snap, start_utc, notes) ==
    LET key == sanitize_key(login) IN
    /\ fs' = save_live_activity(fs, key, login, "Al B", "Audit", "Daily", "", "", notes,
                                Some(start_utc), snap[1], snap[2], snap[3])
    /\ last_written' = [last_written EXCEPT
                           ![key] = Some(<<snap[1], Some(start_utc), snap[2], snap[3]>>)]
    /\ UNCHANGED <<now, page_vars, procs, cache, last_load, recent_cache, last_recent, io>>

\* An update writes its three fields into the record, if there is one.
UpdateSnap(key, snap) ==
    /\ fs' = update_live_activity_state(fs, key, snap[1], snap[2], snap[3])
    /\ last_written' = [last_written EXCEPT
                           ![key] = IF @ = None THEN None
                                    ELSE Some(<<snap[1], Val(@)[2], snap[2], snap[3]>>)]
    /\ UNCHANGED <<now, page_vars, procs, cache, last_load, recent_cache, last_recent, io>>

RemoveSnap(key) ==
    /\ fs' = delete_live_activity(fs, key)
    /\ last_written' = [last_written EXCEPT ![key] = None]
    /\ UNCHANGED <<now, page_vars, procs, cache, last_load, recent_cache, last_recent, io>>

NextLive ==
    \/ \E login \in StoreLogins, snap \in Snapshots, start_utc \in {0, 1},
          notes \in {"", " fix "} : SaveSnap(login, snap, start_utc, notes)
    \/ \E key \in StoreKeys, snap \in LiveSnapshots : UpdateSnap(key, snap)
    \/ \E key \in StoreKeys : RemoveSnap(key)

\* ------------------------------------------------- the text functions, called

\* The durations formatted: the small ones, and those around the points where
\* a field of HH:MM:SS rolls over or the hour field grows a digit.
Durations ==
    (0..61) \cup {3599, 3600, 3601, 3661, 35999, 36000, 86399, 86400, 359999, 360000,
                  360001, 363599, 363600, 3599999, 3600000, 3600059}

\* The texts parsed: every text of up to MaxTextLen of these characters, and
\* the texts of DurationEdits.
MaxTextLen == 4
TimeTexts ==
    DurationEdits
        \cup UNION {[1..n -> {"0", "1", ":", "a", " ", "-", "_"}] : n \in 0..MaxTextLen}

\* One call is made in a behaviour: the functions keep no state between calls.
FormatCall(seconds) ==
    /\ io = None
    /\ io' = Some([fn |-> "format_hhmmss", arg |-> seconds, out |-> format_hhmmss(seconds)])
    /\ UNCHANGED <<now, fs, page_vars, procs, cache, last_load, recent_cache, last_recent, last_written>>

ParseCall(time_str) ==
    /\ io = None
    /\ io' = Some([fn |-> "parse_hhmmss", arg |-> time_str, out |-> parse_hhmmss(time_str)])
    /\ UNCHANGED <<now, fs, page_vars, procs, cache, last_load, recent_cache, last_recent, last_written>>

NextText ==
    \/ \E seconds \in Durations : FormatCall(seconds)
    \/ \E time_str \in TimeTexts : ParseCall(time_str)

\* The first run of the script in a fresh session over an empty store.
Init ==
    /\ now = 0
    /\ fs = << >>
    /\ ss = page(World(NewSession, << >>), 0, 0).ss
    /\ closed_pause_ticks = 0
    /\ raised = ""
    /\ procs = [k \in StoreKeys |-> IdleProc]
    /\ cache = [utils |-> None, task_tracker_utils |-> None]
    /\ last_load = None
    /\ recent_cache = << >>
    /\ last_recent = None
    /\ last_written = [k \in StoreKeys |-> None]
    /\ io = None

Next ==
    \/ Rerun
    \/ \E task_name \in task_options : SelectTask(task_name)
    \/ \E i \in 1..Len(CADENCE_ORDER) : SelectCadence(CADENCE_ORDER[i])
    \/ Start
    \/ Pause
    \/ Resume
    \/ End
    \/ Reset
    \/ Upload
    \/ \E task_id \in {<<"1f0c9a3e", "x">>} :
          Submit(format_hhmmss(ss.elapsed_seconds), task_id)
    \/ Cancel
    \/ Reload
    \/ Tick

Spec == Init /\ [][Next]_vars

SpecDirect == Init /\ [][NextDirect]_vars

SpecStore == Init /\ [][NextStore]_vars

SpecCache == Init /\ [][NextCache]_vars

SpecSubmit == Init /\ [][NextSubmit]_vars

SpecResubmit == Init /\ [][NextResubmit]_vars

SpecListing == Init /\ [][NextListing]_vars

SpecLive == Init /\ [][NextLive]_vars

SpecText == Init /\ [][NextText]_vars

\* The sessions of several OS users, each publishing its live record under
\* the key derived from its login (task-tracker.py lines 334-337).
OsLogins == {
    <<"a", " ", "b">>, <<"a", "_", "b">>, <<"A", ".", "b">>, <<"a", ".", "b">>,
    <<"b">>, <<"b", "!">> }

PublishAs(login, snap) ==
    /\ fs' = save_live_activity(fs, sanitize_key(login), login, "", "Audit", "Daily", "", "",
                                "", Some(0), snap[1], snap[2], snap[3])
    /\ UNCHANGED <<now, page_vars, store_vars>>

NextOwners == \E login \in OsLogins, snap \in Snapshots : PublishAs(login, snap)

SpecOwners == Init /\ [][NextOwners]_vars

\* The page, with reset_all also called outside the phase that offers it.
NextReset ==
    \/ Next
    \/ CallReset

SpecReset == Init /\ [][NextReset]_vars

\* Pause, in a turn where pd.read_parquet raises inside
\* update_live_activity_state: the except clause passes, the record stays as
\* it was and pause_task returns normally.
PauseUpdateRaises ==
    /\ ss.state = "running"
    /\ Exists(fs, LivePath(user_key))
    /\ Turn(World(pause_task(Here, now).ss, fs))
    /\ UNCHANGED closed_pause_ticks

NextSync ==
    \/ Next
    \/ PauseUpdateRaises

SpecSync == Init /\ [][NextSync]_vars

\* The notes text area (line 388) and the account select box (line 353), which
\* stay enabled in every phase.
EditInputs(notes, account) ==
    /\ <<notes, account>> # <<ss.notes, ss.acct>>
    /\ Turn(World([ss EXCEPT !.notes = notes, !.acct = account], fs))
    /\ UNCHANGED closed_pause_ticks

NextEdits ==
    \/ \E task_name \in task_options : SelectTask(task_name)
    \/ Start
    \/ Pause
    \/ Resume
    \/ End
    \/ Reset
    \/ \E notes \in {"", " fix "}, account \in {"", "Acme"} : EditInputs(notes, account)
    \/ Reload
    \/ Tick

SpecEdits == Init /\ [][NextEdits]_vars

SpecUnreadable == Init /\ [][NextUnreadable]_vars


\* --------------------------------------------- the timer on Scenario A's clock

\* The instants of Scenario A, in seconds after T0: start, +300 s pause,
\* +360 s resume, +480 s end.  Under SpecScenario the clock steps from one
\* to the next, so every instant read is a whole second.
ScenarioInstants == <<0, 300, 360, 480>>

TickScenario ==
    /\ \E i \in 1..(Len(ScenarioInstants) - 1) :
          /\ now = ScenarioInstants[i] * TicksPerSec
          /\ now' = ScenarioInstants[i + 1] * TicksPerSec
    /\ UNCHANGED <<fs, page_vars, store_vars>>

NextScenario ==
    \/ Rerun
    \/ \E task_name \in task_options : SelectTask(task_name)
    \/ \E i \in 1..Len(CADENCE_ORDER) : SelectCadence(CADENCE_ORDER[i])
    \/ Start
    \/ Pause
    \/ Resume
    \/ End
    \/ Reset
    \/ Upload
    \/ \E task_id \in {<<"1f0c9a3e", "x">>} :
          Submit(format_hhmmss(ss.elapsed_seconds), task_id)
    \/ Cancel
    \/ Reload
    \/ TickScenario

SpecScenario == Init /\ [][NextScenario]_vars

\* ------------------------------------------------------------------ claims

\* What compute_elapsed_seconds() can return when called now.
ElapsedNow == {compute_elapsed_seconds(ss, now, now + skew) : skew \in ClockReadSkew}

\* The instant an observation of the timer refers to: end_utc once ended.
ObservedInstant == IF ss.state = "ended" THEN Val(ss.end_utc) ELSE now

WholeSecond(t) == t % TicksPerSec = 0

\* C1: after start_task() and any number of pause_task()/resume_task() pairs
\* (so in phase running, or ended with no pause open), whenever start_utc, the
\* instant of observation and the summed lengths of the completed pause
\* intervals are whole seconds, compute_elapsed_seconds() is
\* max(0, (t - start_utc) - the summed lengths of the completed pauses).
C1_ElapsedExcludesCompletedPauses ==
    ( /\ ss.state = "running" \/ (ss.state = "ended" /\ ss.pause_start_utc = None)
      /\ WholeSecond(Val(ss.start_utc))
      /\ WholeSecond(ObservedInstant)
      /\ WholeSecond(closed_pause_ticks) ) =>
        \A e \in ElapsedNow :
            e * TicksPerSec =
                Max(0, (ObservedInstant - Val(ss.start_utc)) - closed_pause_ticks)

\* C2: once ended, compute_elapsed_seconds() excludes every pause interval,
\* the one still open when end_task() was called included.
C2_EndFoldsOpenPause ==
    ss.state = "ended" =>
        \A e \in ElapsedNow :
            e * TicksPerSec =
                Max(0, (Val(ss.end_utc) - Val(ss.start_utc)) - closed_pause_ticks)


\* The user's live record is in the store.
LiveRecordExists == Exists(fs, LivePath(user_key))

PhaseChanges == {<<"idle", "running">>, <<"running", "paused">>, <<"paused", "running">>,
                 <<"running", "ended">>, <<"paused", "ended">>, <<"ended", "idle">>}

\* C3: every phase change is one of idle->running, running->paused,
\* paused->running, running->ended, paused->ended, ended->idle, and a control
\* of the page makes it only as follows: idle->running by Start with a task
\* name and a cadence selected, running->paused by Pause, paused->running by
\* Resume, running->ended and paused->ended by End, ended->idle by a submit
\* or by Reset.  (A reload of the page starts a new session and is no control.)
C3_Step ==
    LET p == ss.state
        q == ss'.state
    IN  p # q =>
          /\ <<p, q>> \in PhaseChanges
          /\ \/ Reload
             \/ p = "idle" /\ q = "running" /\ Start
                   /\ ss.task # "" /\ ss.selected_cadence # NoneStr
             \/ p = "running" /\ q = "paused" /\ Pause
             \/ p = "paused" /\ q = "running" /\ Resume
             \/ p = "running" /\ q = "ended" /\ End
             \/ p = "paused" /\ q = "ended" /\ End
             \/ p = "ended" /\ q = "idle" /\
                   (Reset \/ \E task_id \in TaskIDs :
                                 Submit(format_hhmmss(ss.elapsed_seconds), task_id))

C3_PhaseChanges == [][C3_Step]_vars

\* A task was timed, paused, ended and submitted: the session is idle again.
C3_Witness ==
    /\ ss.state = "idle"
    /\ completed_files(fs) # {}
    /\ \E p \in completed_files(fs) : fs[p].rows[1].DurationSeconds > 0

\* C5: paused implies pause_start_utc is set, idle implies start_utc is
\* absent, and compute_elapsed_seconds() is never negative.
C5_TimerInvariant ==
    /\ ss.state \in {"idle", "running", "paused", "ended"}
    /\ ss.state = "paused" => ss.pause_start_utc # None
    /\ ss.state = "idle" => ss.start_utc = None
    /\ \A e \in ElapsedNow : e >= 0

\* A paused timer restored by a reload, and the clock has moved on since the pause.
C5_Witness ==
    /\ ss.state = "paused"
    /\ ss.restored_task_name # NoneStr
    /\ now > Val(ss.pause_start_utc)

C8_Step ==
    (Reload /\ ss.state \in {"running", "paused"}) =>
        /\ ss'.state = ss.state
        /\ ss'.start_utc = ss.start_utc
        /\ ss'.paused_seconds = ss.paused_seconds
        /\ ss'.pause_start_utc = ss.pause_start_utc
        /\ \A skew \in ClockReadSkew :
              compute_elapsed_seconds(ss', now, now + skew) =
              compute_elapsed_seconds(ss, now, now + skew)

TimerUntouched ==
    /\ raised' = ""
    /\ ss'.state = ss.state
    /\ ss'.start_utc = ss.start_utc
    /\ ss'.end_utc = ss.end_utc
    /\ ss'.pause_start_utc = ss.pause_start_utc
    /\ ss'.paused_seconds = ss.paused_seconds

\* C4: a transition function called in a phase it is not valid for raises
\* nothing and leaves state, start_utc, end_utc, pause_start_utc and
\* paused_seconds unchanged.
C4_Step ==
    /\ (CallStart /\ ss.state # "idle") => TimerUntouched
    /\ (CallPause /\ ss.state # "running") => TimerUntouched
    /\ (CallResume /\ ss.state # "paused") => TimerUntouched
    /\ (CallEnd /\ ss.state \notin {"running", "paused"}) => TimerUntouched

C4_InvalidCallIsNoOp == [][C4_Step]_vars

\* ------------------------------------------------------------------ C7

KeyRecord(f, key) == IF Exists(f, LivePath(key)) THEN Some(f[LivePath(key)]) ELSE None

LiveStoreWellFormed(f) ==
    \A p \in DOMAIN f :
        GlobLive(p) =>
            /\ f[p].complete
            /\ Len(f[p].rows) = 1
            /\ f[p].rows[1].UserKey \in StoreKeys
            /\ p = LivePath(f[p].rows[1].UserKey)

C7_Step ==
    /\ LiveStoreWellFormed(fs')
    /\ \A key \in StoreKeys :
           KeyRecord(fs', key) # KeyRecord(fs, key) => WriteStep(key) \/ DeleteLive(key)

\* C7: whatever the interleaving of the steps of save, update and delete calls
\* made by users with different keys, every file the live store shows holds
\* exactly one record and is the file named after that record's UserKey (so no
\* key ever has two records), and a step changes the record of a key only when
\* it is a step of a call made for that key.
C7_OneRecordPerKey == [][C7_Step]_vars

\* Both users have a record while the other user's write is still in progress.
C7_Witness ==
    /\ \A key \in StoreKeys : Exists(fs, LivePath(key))
    /\ \E key \in StoreKeys :
           /\ procs[key].stage = "written"
           /\ procs[key].path = LivePath(key)
           /\ KeyRecord(fs, key) # Some(Table(procs[key].rows))

\* ------------------------------------------------------------------ C10

Visible(path) == GlobLive(path) \/ GlobCompleted(path)

C10_Step ==
    \A p \in DOMAIN fs' :
        Visible(p) =>
            /\ fs'[p].complete
            /\ \/ Exists(fs, p) /\ fs'[p] = fs[p]
               \/ \E key \in StoreKeys : procs[key] = WriteProc("written", p, fs'[p].rows)

\* C10: at every step of atomic_write_parquet, and after a crash at any point
\* of it, a file under a name the readers look for is a complete table: it is
\* the content the name had before the step, or the complete new content of a
\* writer that had finished its temporary file.
C10_NoPartialVisibleFile == [][C10_Step]_vars

\* A writer died with its temporary file half written, next to the complete
\* file it was replacing.
C10_Witness ==
    \E key \in StoreKeys :
        /\ procs[key] = IdleProc
        /\ Exists(fs, LivePath(key))
        /\ Exists(fs, tmp_path(LivePath(key)))
        /\ ~fs[tmp_path(LivePath(key))].complete

\* ------------------------------------------------------------------ C9

\* The user key that owns a row of a listing.
RowOwner(row) == sanitize_key(row.UserLogin)

\* C9: the last call load_live_activities(dir, exclude=k), of either module,
\* served from the cache or not, returned no record owned by k; and when it
\* read the store it returned a record for every other user that had one.
C9_ListingExcludesCaller ==
    last_load # None =>
        LET call == Val(last_load) IN
        /\ \A row \in call.result : RowOwner(row) # call.exclude
        /\ ~call.hit =>
              \A key \in call.present \ {call.exclude} :
                  \E row \in call.result : RowOwner(row) = key

\* ------------------------------------------------------------------ C11

\* C11: a submit writes to a path no earlier record occupies, whatever the
\* TaskIDs generated, and so also when both tasks started in the same second.
C11_Step ==
    \A task_id \in TaskIDs :
        (DialogShown /\ ss'.state = "idle" /\ SubmitAgain(task_id)) =>
            ~Exists(fs, submit_path(ss, task_id))

C11_DistinctPaths == [][C11_Step]_vars

\* ------------------------------------------------------------------ C12

\* C12: a step adds a completed record only as the submit of an ended task,
\* which leaves the session idle (one record per task instance), and every
\* completed record file is still there with the same content after any step.
C12_Step ==
    /\ completed_files(fs') # completed_files(fs) => ss.state = "ended" /\ ss'.state = "idle"
    /\ \A p \in completed_files(fs) : Exists(fs', p) /\ fs'[p] = fs[p]

C12_AppendOnly == [][C12_Step]_vars

\* ------------------------------------------------------------------ C13

TimerFieldsKept ==
    /\ ss'.state = "ended"
    /\ ss'.start_utc = ss.start_utc
    /\ ss'.end_utc = ss.end_utc
    /\ ss'.paused_seconds = ss.paused_seconds

\* C13: when atomic_write_parquet raises during submit, whichever of its steps
\* fails, the session is not marked uploaded, stays ended with start_utc,
\* end_utc and paused_seconds as they were and the dialog still there for a
\* retry, and the visible completed files are exactly those of before; and
\* confirm_submit sets uploaded only with the record file written in full.
C13_Step ==
    /\ \A step \in WriteFailures, task_id \in TaskIDs :
          (raised' = "OSError" /\
           SubmitFails(format_hhmmss(ss.elapsed_seconds), task_id, step)) =>
              /\ ~ss'.uploaded
              /\ TimerFieldsKept
              /\ DialogShown'
              /\ completed_files(fs') = completed_files(fs)
              /\ \A p \in completed_files(fs') : fs'[p] = fs[p]
    /\ \A edited \in DurationEdits, task_id \in TaskIDs :
          (DialogShown /\ ss'.state = "idle") =>
              LET done == confirm_submit(Here, edited, task_id, now)
                  path == submit_path(ss, task_id)
              IN  done.ss.uploaded =>
                      /\ Exists(done.fs, path)
                      /\ done.fs[path] = Table(<<submit_record(ss, edited, task_id, now)>>)

C13_FailedSubmitNotReported == [][C13_Step]_vars

\* The rename failed: the finished temporary file lies beside no record, the
\* task is still ended and the dialog still open.
C13_Witness ==
    /\ raised = "OSError"
    /\ ss.state = "ended"
    /\ DialogShown
    /\ completed_files(fs) = {}
    /\ \E p \in DOMAIN fs : fs[p].complete /\ ~GlobCompleted(p)

\* ------------------------------------------------------------------ C14

\* C14: the record a submit stores has DurationSeconds = parse_hhmmss(edited)
\* when that is >= 0 and the computed elapsed seconds otherwise, the submit
\* going through in both cases ("02:00:00" stores 7200); every stored
\* completed record has DurationSeconds >= 0.
C14_Step ==
    /\ \A edited \in DurationEdits, task_id \in TaskIDs :
          (DialogShown /\ ss'.state = "idle" /\ Submit(edited, task_id)) =>
              LET path == submit_path(ss, task_id) IN
              /\ Exists(fs', path)
              /\ ss'.state = "idle"
              /\ parse_hhmmss(edited) >= 0 =>
                    fs'[path].rows[1].DurationSeconds = parse_hhmmss(edited)
              /\ parse_hhmmss(edited) < 0 =>
                    \A e \in ElapsedNow : fs'[path].rows[1].DurationSeconds = e
              /\ edited = <<"0", "2", ":", "0", "0", ":", "0", "0">> =>
                    fs'[path].rows[1].DurationSeconds = 7200
    /\ \A p \in completed_files(fs') : fs'[p].rows[1].DurationSeconds >= 0

C14_StoredDuration == [][C14_Step]_vars

\* Scenario D: a task that ran 7215 s is stored with the edited 7200 s.
C14_Witness ==
    \E p \in completed_files(fs) :
        /\ fs[p].rows[1].DurationSeconds = 7200
        /\ Val(fs[p].rows[1].EndTimestampUTC) - Val(fs[p].rows[1].StartTimestampUTC)
              = 7215 * TicksPerSec

\* ------------------------------------------------------------------ C15

\* C15: a listing that reads the store returns the record of every readable
\* file it is to list, whatever the state of the other files: the live
\* listing a row for every other user with a readable record, today's tasks
\* every readable record of today up to the limit.
C15_Step ==
    /\ \A key \in StoreKeys :
          (last_load' # last_load /\ LoadLive(key) /\ ~Val(last_load').hit) =>
              \A other \in StoreKeys \ {key} :
                  (Exists(fs, LivePath(other)) /\ Readable(fs, LivePath(other))) =>
                      \E row \in Val(last_load').result : RowOwner(row) = other
    /\ \A call \in RecentCalls :
          (last_recent' # last_recent /\ LoadRecent(call[1], call[2])
             /\ ~Val(last_recent').hit) =>
              LET result == Val(last_recent').result IN
              \A p \in today_files(fs, call[1], now) :
                  Readable(fs, p) =>
                      \/ Len(result) = call[2]
                      \/ \E i \in 1..Len(result) : result[i] = RecentColumns(fs[p].rows[1])

C15_ListingSkipsBadFile == [][C15_Step]_vars

\* ------------------------------------------------------------------ C16

\* The completed records of the user (of every user without a key) started
\* on the Eastern calendar day of now.
TodaysRecords(key) ==
    {p \in completed_files(fs) :
        /\ eastern_day(Val(fs[p].rows[1].StartTimestampUTC)) = eastern_day(now)
        /\ key # << >> => sanitize_key(fs[p].rows[1].UserLogin) = key}

\* The frame is the limit most recent of today's records of the user.
MostRecentOfToday(result, key, limit) ==
    /\ \A i \in 1..Len(result) :
          /\ eastern_day(Val(result[i].StartTimestampUTC)) = eastern_day(now)
          /\ key # << >> => RowOwner(result[i]) = key
    /\ Len(result) = IF Cardinality(TodaysRecords(key)) < limit
                     THEN Cardinality(TodaysRecords(key)) ELSE limit
    /\ \A i, j \in 1..Len(result) :
          i < j => Val(result[i].StartTimestampUTC) >= Val(result[j].StartTimestampUTC)
    /\ \A p \in TodaysRecords(key) :
          \/ \E i \in 1..Len(result) : result[i] = RecentColumns(fs[p].rows[1])
          \/ /\ Len(result) = limit
             /\ \A i \in 1..Len(result) :
                   Val(result[i].StartTimestampUTC) >= Val(fs[p].rows[1].StartTimestampUTC)

\* C16 as stated: every call returns the limit most recent of today's records.
C16_Original_Step ==
    \A call \in RecentCalls :
        (last_recent' # last_recent /\ LoadRecent(call[1], call[2])) =>
            MostRecentOfToday(Val(last_recent').result, call[1], call[2])

C16_Step ==
    \A call \in RecentCalls :
        (last_recent' # last_recent /\ LoadRecent(call[1], call[2])) =>
            IF Val(last_recent').hit
            THEN /\ call \in DOMAIN recent_cache
                 /\ Val(last_recent').result = recent_cache[call].value
                 /\ now - recent_cache[call].at < RECENT_TTL * TicksPerSec
            ELSE MostRecentOfToday(Val(last_recent').result, call[1], call[2])

C17_RoundTrip ==
    \A key \in StoreKeys :
        last_written[key] # None =>
            LET restored == load_own_live_activity(fs, key) IN
            /\ restored # None
            /\ << Val(restored).state, Val(restored).start_utc,
                  Val(restored).paused_seconds, Val(restored).pause_start_utc >>
                  = Val(last_written[key])

\* One user's record was saved running and updated to paused, the other's was
\* written with no pause open.
C17_Witness ==
    /\ last_written[user_key] = Some(<<"paused", Some(0), 1, Some(2)>>)
    /\ Val(load_own_live_activity(fs, user_key)).notes = "fix"
    /\ \E key \in StoreKeys \ {user_key} :
          /\ last_written[key] # None
          /\ Val(last_written[key])[4] = None

\* ------------------------------------------------------------------ C18

\* The records of the live store that carry the key.
RecordsOf(f, key) ==
    {<<p, i>> \in {<<p, i>> \in live_files(f) \X (1..1 + Cardinality(StoreKeys)) :
                       Readable(f, p) /\ i <= Len(f[p].rows)} :
        f[p].rows[i].UserKey = key}

C18_Step ==
    /\ \A login \in StoreLogins, snap \in Snapshots, start_utc \in {0, 1},
          notes \in {"", " fix "} :
          SaveSnap(login, snap, start_utc, notes) =>
              /\ save_live_activity(fs', sanitize_key(login), login, "Al B", "Audit",
                                    "Daily", "", "", notes, Some(start_utc),
                                    snap[1], snap[2], snap[3]) = fs'
              /\ Cardinality(RecordsOf(fs', sanitize_key(login))) = 1
    /\ \A key \in StoreKeys :
          (RemoveSnap(key) /\ ~Exists(fs, LivePath(key))) =>
              /\ fs' = fs
              /\ raised' = raised
              /\ delete_live_activity(fs', key) = fs'

\* C18: saving the same snapshot a second time leaves the store as the first
\* save left it, with one record for the key; deleting when the key has no
\* record changes nothing and raises nothing.
C18_Idempotent == [][C18_Step]_vars

\* One user's snapshot is in the store, saved over an earlier record of
\* theirs, while the other user, whose record was deleted, has none.
C18_Witness ==
    \E key \in StoreKeys :
        /\ last_written[user_key] = Some(<<"paused", Some(1), 0, Some(1)>>)
        /\ Cardinality(RecordsOf(fs, user_key)) = 1
        /\ key # user_key
        /\ ~Exists(fs, LivePath(key))
        /\ raised = ""

\* ------------------------------------------------------------------ C19

\* The fields of a live record that an update leaves alone.
FixedFields(row) ==
    << row.UserKey, row.UserLogin, row.FullName, row.TaskName, row.TaskCadence,
       row.CompanyGroup, row.IsCoveringFor, row.CoveringFor, row.Notes,
       row.StartTimestampUTC >>

C19_Step ==
    \A key \in StoreKeys, snap \in LiveSnapshots :
        UpdateSnap(key, snap) =>
            IF Exists(fs, LivePath(key))
            THEN /\ DOMAIN fs' = DOMAIN fs
                 /\ \A p \in DOMAIN fs \ {LivePath(key)} : fs'[p] = fs[p]
                 /\ Readable(fs', LivePath(key))
                 /\ Len(fs'[LivePath(key)].rows) = Len(fs[LivePath(key)].rows)
                 /\ \A i \in 1..Len(fs[LivePath(key)].rows) :
                       /\ FixedFields(fs'[LivePath(key)].rows[i])
                              = FixedFields(fs[LivePath(key)].rows[i])
                       /\ fs'[LivePath(key)].rows[i].State = snap[1]
                       /\ fs'[LivePath(key)].rows[i].PausedSeconds = snap[2]
                       /\ fs'[LivePath(key)].rows[i].PauseStartTimestampUTC = snap[3]
            ELSE fs' = fs

\* C19: an update of an existing record changes only State, PausedSeconds and
\* PauseStartTimestampUTC and leaves its other ten fields, and every other
\* file, as they were; with no record for the key it creates nothing and
\* changes nothing.
C19_UpdateFrame == [][C19_Step]_vars

\* A record saved running with notes and a start time has been updated to
\* paused with one second of pauses closed, and the other key has no record.
C19_Witness ==
    /\ Exists(fs, LivePath(user_key))
    /\ fs[LivePath(user_key)].rows[1].State = "paused"
    /\ fs[LivePath(user_key)].rows[1].PausedSeconds = 1
    /\ fs[LivePath(user_key)].rows[1].Notes = "fix"
    /\ fs[LivePath(user_key)].rows[1].StartTimestampUTC = Some(1)
    /\ \E key \in StoreKeys : ~Exists(fs, LivePath(key))

\* ------------------------------------------------------------------ C20

C20_Step ==
    CallReset =>
        /\ ss'.state = "idle"
        /\ ss'.start_utc = None
        /\ ss'.end_utc = None
        /\ ss'.pause_start_utc = None
        /\ ss'.paused_seconds = 0
        /\ ss'.elapsed_seconds = 0
        /\ ss'.selected_cadence = NoneStr
        /\ ss'.last_task_name = ""
        /\ ~Exists(fs', LivePath(user_key))

C21_RoundTrip ==
    (io # None /\ Val(io).fn = "format_hhmmss") =>
        parse_hhmmss(Val(io).out) = Val(io).arg

\* 360000 seconds were formatted, as the three-digit hour text 100:00:00.
C21_Witness ==
    /\ io # None
    /\ Val(io).fn = "format_hhmmss"
    /\ Val(io).arg = 360000
    /\ Val(io).out = <<"1", "0", "0", ":", "0", "0", ":", "0", "0">>

\* ------------------------------------------------------------------ C22

\* The tokens of a text: the pieces between its colons, the outer blanks of
\* the text dropped first.
Trimmed(text) ==
    LET inked == {i \in 1..Len(text) : text[i] # " "} IN
    IF inked = {} THEN << >>
    ELSE SubSeq(text, CHOOSE i \in inked : \A j \in inked : i <= j,
                      CHOOSE i \in inked : \A j \in inked : i >= j)

TokenCount(text) == 1 + Cardinality({i \in 1..Len(Trimmed(text)) : Trimmed(text)[i] = ":"})

Token(text, k) ==
    LET t == Trimmed(text)
        ends == {i \in 1..(Len(t) + 1) : i = Len(t) + 1 \/ t[i] = ":"}
        last == CHOOSE i \in ends : Cardinality({j \in ends : j < i}) = k - 1
        first == IF k = 1 THEN 1
                 ELSE 1 + CHOOSE i \in ends : Cardinality({j \in ends : j < i}) = k - 2
    IN  SubSeq(t, first, last - 1)

\* An integer token: blanks, an optional sign, digits (single underscores
\* between digits allowed), blanks.
Unsigned(tok) ==
    IF Trimmed(tok) # << >> /\ Trimmed(tok)[1] \in {"+", "-"}
    THEN SubSeq(Trimmed(tok), 2, Len(Trimmed(tok))) ELSE Trimmed(tok)

IsIntegerToken(tok) ==
    LET b == Unsigned(tok) IN
    /\ b # << >>
    /\ \A i \in 1..Len(b) :
          \/ b[i] \in {"0", "1", "2", "3", "4", "5", "6", "7", "8", "9"}
          \/ /\ b[i] = "_"
             /\ 1 < i /\ i < Len(b)
             /\ b[i - 1] # "_" /\ b[i + 1] # "_"

RECURSIVE PlaceValue(_)
PlaceValue(ds) ==
    IF ds = << >> THEN 0
    ELSE 10 * PlaceValue(SubSeq(ds, 1, Len(ds) - 1))
         + (CASE ds[Len(ds)] = "0" -> 0 [] ds[Len(ds)] = "1" -> 1 [] ds[Len(ds)] = "2" -> 2
              [] ds[Len(ds)] = "3" -> 3 [] ds[Len(ds)] = "4" -> 4 [] ds[Len(ds)] = "5" -> 5
              [] ds[Len(ds)] = "6" -> 6 [] ds[Len(ds)] = "7" -> 7 [] ds[Len(ds)] = "8" -> 8
              [] ds[Len(ds)] = "9" -> 9)

TokenValue(tok) ==
    LET v == PlaceValue(SelectSeq(Unsigned(tok), LAMBDA c : c # "_")) IN
    IF Trimmed(tok)[1] = "-" THEN -v ELSE v

\* C22: parse_hhmmss returns -1 for every text that is not two or three
\* integer tokens joined by colons ("", "abc" and "1:2:3:4" among them), and
\* h*3600 + m*60 (+ s) for a text of the form HH:MM or HH:MM:SS.
C22_ParseOrSentinel ==
    (io # None /\ Val(io).fn = "parse_hhmmss") =>
        LET text == Val(io).arg
            n == TokenCount(text)
        IN  /\ text \in {<< >>, <<"a", "b", "c">>, <<"1", ":", "2", ":", "3", ":", "4">>}
                  => Val(io).out = -1
            /\ IF n \in {2, 3} /\ \A k \in 1..n : IsIntegerToken(Token(text, k))
               THEN Val(io).out = TokenValue(Token(text, 1)) * 3600
                                  + TokenValue(Token(text, 2)) * 60
                                  + (IF n = 3 THEN TokenValue(Token(text, 3)) ELSE 0)
               ELSE Val(io).out = -1

\* "1:2:3:4", four tokens, was parsed.
C22_Witness ==
    /\ io # None
    /\ Val(io).fn = "parse_hhmmss"
    /\ Val(io).arg = <<"1", ":", "2", ":", "3", ":", "4">>
    /\ Val(io).out = -1

\* ------------------------------------------------------------------ C23

C23_Step ==
    Start =>
        /\ ss'.state = "running"
        /\ ss'.start_utc = Some(now)
        /\ ss'.paused_seconds = 0
        /\ ss'.end_utc = None
        /\ ss'.pause_start_utc = None

\* C23: after start_task from idle, however idle was reached (fresh session,
\* reset_all, submit), the session is running from the instant of the call
\* with paused_seconds 0 and no end or pause instant.
C23_StartFromIdle == [][C23_Step]_vars

\* A task was started after an earlier one had been submitted.
C23_Witness ==
    /\ ss.state = "running"
    /\ ss.start_utc = Some(now)
    /\ now > 0
    /\ ss.paused_seconds = 0
    /\ completed_files(fs) # {}

\* ------------------------------------------------------------------ C24

\* C24: pause_start_utc is set exactly while the phase is paused: present in
\* every paused state and absent in every idle, running or ended state.
C24_PauseStartOnlyWhilePaused ==
    (ss.state = "paused") <=> (ss.pause_start_utc # None)

\* ------------------------------------------------------------------ C25

\* C25: at the end of every turn in which the user's live record exists, its
\* State, PausedSeconds and PauseStartTimestampUTC equal the session's state,
\* paused_seconds and pause_start_utc, also after a turn in which the store
\* raised inside update_live_activity_state.
C25_LiveRecordInSync ==
    (Exists(fs, LivePath(user_key)) /\ Readable(fs, LivePath(user_key))) =>
        LET row == fs[LivePath(user_key)].rows[1] IN
        /\ row.State = ss.state
        /\ row.PausedSeconds = ss.paused_seconds
        /\ row.PauseStartTimestampUTC = ss.pause_start_utc

\* ------------------------------------------------------------------ C26

C26_Step ==
    \A login \in OsLogins, snap \in Snapshots :
        PublishAs(login, snap) =>
            /\ \A other \in OsLogins \ {login} : sanitize_key(other) # sanitize_key(login)
            /\ \A p \in DOMAIN fs :
                  fs'[p] # fs[p] => fs[p].rows[1].UserLogin = login

\* C26: distinct logins have distinct user keys, so a session never writes a
\* live record file that the session of another user wrote.
C26_OneOwnerPerFile == [][C26_Step]_vars

\* ------------------------------------------------------------------ C27

\* Two consecutive turns of one task instance: elapsed_seconds holds what
\* compute_elapsed_seconds returned in each (line 391).
C27_Step ==
    ( /\ ss.start_utc # None
      /\ ss'.start_utc = ss.start_utc
      /\ ss.state # "idle" /\ ss'.state # "idle" ) =>
        /\ ss'.elapsed_seconds >= ss.elapsed_seconds
        /\ (ss'.state = ss.state /\ ss.state \in {"paused", "ended"}) =>
              ss'.elapsed_seconds = ss.elapsed_seconds

\* C27: within one task instance compute_elapsed_seconds never decreases, and
\* it does not change as the clock advances while the phase is paused or
\* ended.
C27_ElapsedMonotone == [][C27_Step]_vars

\* ------------------------------------------------------------------ C28

TimerOf(s) == <<s.state, s.start_utc, s.paused_seconds, s.pause_start_utc>>

\* What each callback leaves in the timer is what the turn ends with: the
\* rerun after it takes nothing from the live record.
C28_Step ==
    /\ ss'.state_restored
    /\ (ss.state = "running" /\ (Pause \/ PauseUpdateRaises)) =>
          TimerOf(ss') = TimerOf(pause_task(Here, now).ss)
    /\ (ss.state = "paused" /\ Resume) => TimerOf(ss') = TimerOf(resume_task(Here, now).ss)
    /\ (ss.state = "ended" /\ ss'.state = "idle" /\ ~Reload) =>
          TimerOf(ss') = TimerOf(DEFAULT_STATE)
    /\ Rerun => TimerOf(ss') = TimerOf(ss)

\* C28: after its first turn a session never reads the live store to restore
\* its timer: state_restored stays true, through reset_all and submit too, so
\* no later turn overwrites state, start_utc, paused_seconds or
\* pause_start_utc from the live record.
C28_RestoreOnlyOnce == [][C28_Step]_vars

\* A live record that differs from the session's timer is in the store at the
\* end of a turn: the session is paused, the record says running.
C28_Witness ==
    /\ ss.state = "paused"
    /\ ss.state_restored
    /\ Exists(fs, LivePath(user_key))
    /\ fs[LivePath(user_key)].rows[1].State = "running"

\* ------------------------------------------------------------------ C29

\* The fields of the live record that only save_live_activity writes.
PublishedFields(row) ==
    << row.TaskName, row.TaskCadence, row.CompanyGroup, row.CoveringFor, row.Notes,
       row.StartTimestampUTC >>

C29_Step ==
    (Exists(fs, LivePath(user_key)) /\ Exists(fs', LivePath(user_key))) =>
        PublishedFields(fs'[LivePath(user_key)].rows[1])
            = PublishedFields(fs[LivePath(user_key)].rows[1])

\* C29: the live record is published once per task instance: from then until
\* it is deleted its TaskName, TaskCadence, CompanyGroup, CoveringFor, Notes
\* and StartTimestampUTC do not change, whatever is typed into the notes or
\* chosen as account while running or paused.
C29_PublishedOnce == [][C29_Step]_vars

\* Notes and account were edited after the publish, while paused: the record
\* still has neither.
C29_Witness ==
    /\ ss.state = "paused"
    /\ ss.notes = " fix "
    /\ ss.acct = "Acme"
    /\ ss.live_activity_saved
    /\ Exists(fs, LivePath(user_key))
    /\ fs[LivePath(user_key)].rows[1].Notes = NoneStr
    /\ fs[LivePath(user_key)].rows[1].CompanyGroup = NoneStr

\* ------------------------------------------------------------------ C30

C30_Step == CallReset => ss'.reset_counter > ss.reset_counter

\* C30: every reset_all call leaves reset_counter greater than it was before
\* the call, so the widget keys used after a reset differ from those before.
C30_ResetCounterGrows == [][C30_Step]_vars

====
